---- MODULE Spec2Model ----
(***************************************************************************)
(* Echoes backend: the combat engine (effect VM, status engine, Battle     *)
(* orchestrator) and the three combat use cases (start, execute action,    *)
(* flee) over the combat_sessions store.                                   *)
(*                                                                         *)
(* Numbers: eval_formula returns a float; here a formula value is an exact *)
(* rational kept as a numerator over a fixed denominator, and int() is     *)
(* truncation toward zero (Trunc).  random() draws are hundredths.         *)
(***************************************************************************)
EXTENDS Integers, Sequences, FiniteSets, TLC

VARIABLES
    sessions,   \* combat_sessions table: sequence of rows, a row's id is its index
    players,    \* players table: player id -> [level, current_xp, gold]
    requests,   \* requests in flight between their store reads and their write-back
    response    \* the response of the operation that completed last

vars == <<sessions, players, requests, response>>

-----------------------------------------------------------------------------
(* Bounds of the model *)

\* capacity of the combat_sessions table
MaxSessions == 1

\* executeAction is not issued any more once a session's turn_count has reached this
MaxTurn == 3

\* capacity of the table when requests interleave
MaxConcSessions == 2

\* the bound on turn_count for executeAction when requests interleave
MaxConcTurn == 3

\* number of request slots that may be in flight together
MaxRequests == 2

\* magnitude of the integer amounts the content's effects carry
WildAmt == 60

\* number of random() draws fixed per request; further draws repeat them in order
TapeLen == 2

-----------------------------------------------------------------------------
(* Arithmetic and maps *)

\* Python int(x) of the rational n/d, d > 0: truncation toward zero
Trunc(n, d) == IF n >= 0 THEN n \div d ELSE -((-n) \div d)

Min(a, b) == IF a <= b THEN a ELSE b

Max(a, b) == IF a >= b THEN a ELSE b

\* a dict with no key
EmptyMap == [k \in {} |-> 0]

\* dict.get(k, d)
Get(m, k, d) == IF k \in DOMAIN m THEN m[k] ELSE d

\* m[k] = v
Put(m, k, v) == [x \in (DOMAIN m) \cup {k} |-> IF x = k THEN v ELSE m[x]]

\* del m[k]
Del(m, k) == [x \in (DOMAIN m) \ {k} |-> m[x]]

-----------------------------------------------------------------------------
(* Static content: the player, the monster blueprint, status definitions *)

\* random() draws, in hundredths
RandVals == {0, 99}

\* the players that exist; only Fighter starts combats
Players == {"p1", "p2"}

Fighter == "p1"

\* StatsBlock of a level-1 player without stat equipment; crit_chance in
\* hundredths, crit_damage in tenths
PlayerStats ==
    LET level == 1 IN
    [max_hp |-> 100 + (level * 10), ad |-> 10 + (level * 2), ap |-> 10 + (level * 2),
     armor |-> 5 + level, mr |-> 5 + level, speed |-> 10,
     crit_chance |-> 5, crit_damage |-> 15]

\* the monster blueprint row
MonsterBp ==
    [name |-> "wisp", base_level |-> 1, ai_behavior |-> "boss",
     base_max_hp |-> 30, base_ad |-> 60, base_ap |-> 0, base_armor |-> 0,
     base_mr |-> 0, base_speed |-> 9,
     scaling_hp_per_level |-> 0, scaling_ad_per_level |-> 0, scaling_ap_per_level |-> 0,
     scaling_armor_per_level |-> 0, scaling_mr_per_level |-> 0,
     xp_reward |-> 20, gold_reward_min |-> 5, gold_reward_max |-> 5]

\* StatsBlock of the monster at a level (StatsBlock defaults: crit_chance 0.0,
\* crit_damage 1.5)
MonsterStats(bp, level) ==
    [max_hp |-> bp.base_max_hp + bp.scaling_hp_per_level * level,
     ad |-> bp.base_ad + bp.scaling_ad_per_level * level,
     ap |-> bp.base_ap + bp.scaling_ap_per_level * level,
     armor |-> bp.base_armor + bp.scaling_armor_per_level * level,
     mr |-> bp.base_mr + bp.scaling_mr_per_level * level,
     speed |-> bp.base_speed,
     crit_chance |-> 0, crit_damage |-> 15]

\* a formula k10/10 * VAR + c, the shapes "AD * 1.5", "20", "AP * 0.6 + 5"
Lin(k10, var, c) == [k10 |-> k10, var |-> var, c |-> c]

\* a constant formula
Const(c) == Lin(0, "ONE", c)

\* status_definitions table: POISON as seeded, CURSE with a tick_effect whose
\* percent is not a number, BURN as a non-stackable ON_TURN_END tick of 20 MAGIC
StatusDefs ==
    [POISON |-> [is_debuff |-> TRUE, is_stackable |-> TRUE, max_stacks |-> 10,
                 tick_trigger |-> "ON_TURN_END",
                 tick_effect |-> [opcode |-> "damage", order |-> 0,
                                  params |-> [formula |-> Const(10), damage_type |-> "TRUE"]]],
     CURSE |-> [is_debuff |-> TRUE, is_stackable |-> FALSE, max_stacks |-> 1,
                tick_trigger |-> "ON_TURN_END",
                tick_effect |-> [opcode |-> "lifesteal", order |-> 0,
                                 params |-> [percent |-> 0],
                                 unparsable |-> {"percent"}]],
     BURN |-> [is_debuff |-> TRUE, is_stackable |-> FALSE, max_stacks |-> 1,
               tick_trigger |-> "ON_TURN_END",
               tick_effect |-> [opcode |-> "damage", order |-> 0,
                                params |-> [formula |-> Const(20), damage_type |-> "MAGIC"]]]]

-----------------------------------------------------------------------------
(* Combat entities (domain/entities/combat.py) *)

\* an is_dead that does not count an entity at exactly 0 HP as dead
IsDeadBelowZero(e) == e.current_hp < 0

\* CombatEntity.is_dead
IsDead(e) == e.current_hp <= 0

\* hp_percent compared with a threshold in hundredths: hp_percent <= t/100
HpPercentLe(e, t) == IF e.max_hp <= 0 THEN 0 <= t ELSE e.current_hp * 100 <= t * e.max_hp

\* amount * (1 - resist / (100 + resist)) when resist >= 0, truncated by int()
Reduce(amount, resist) ==
    IF resist >= 0 THEN Trunc(amount * 100, 100 + resist) ELSE amount

\* the mitigation step of take_damage
Mitigated(amount, damage_type, stats) ==
    CASE damage_type = "TRUE" -> amount
      [] damage_type = "PHYSICAL" -> Reduce(amount, stats.armor)
      [] damage_type = "MAGIC" -> Reduce(amount, stats.mr)
      [] damage_type = "MIXED" ->
            LET phys == amount \div 2
                magic == amount - phys
            IN Reduce(phys, stats.armor) + Reduce(magic, stats.mr)
      [] OTHER -> amount

\* a take_damage that mitigates the whole amount and lets the shield absorb
\* from what is left
TakeDamageShieldLast(e, amount, damage_type) ==
    LET shield == Get(e.gauges, "shield", 0)
        reduced == Mitigated(amount, damage_type, e.stats)
        absorbed == IF shield > 0 THEN Min(shield, reduced) ELSE 0
        gauges1 == IF shield > 0 THEN Put(e.gauges, "shield", shield - absorbed)
                   ELSE e.gauges
        mitigated == reduced - absorbed
        actual == Min(mitigated, e.current_hp)
    IN [entity |-> [e EXCEPT !.gauges = gauges1, !.current_hp = e.current_hp - actual],
        result |-> [raw_damage |-> amount - absorbed, mitigated_damage |-> mitigated,
                    final_damage |-> actual, damage_type |-> damage_type,
                    was_critical |-> FALSE, overkill |-> Max(0, mitigated - actual)]]

\* CombatEntity.take_damage: the entity afterwards and the DamageResult
TakeDamage(e, amount, damage_type) ==
    LET shield == Get(e.gauges, "shield", 0)
        absorbed == IF shield > 0 THEN Min(shield, amount) ELSE 0
        gauges1 == IF shield > 0 THEN Put(e.gauges, "shield", shield - absorbed)
                   ELSE e.gauges
        rest == amount - absorbed
        mitigated == Mitigated(rest, damage_type, e.stats)
        actual == Min(mitigated, e.current_hp)
    IN [entity |-> [e EXCEPT !.gauges = gauges1, !.current_hp = e.current_hp - actual],
        result |-> [raw_damage |-> rest, mitigated_damage |-> mitigated,
                    final_damage |-> actual, damage_type |-> damage_type,
                    was_critical |-> FALSE, overkill |-> Max(0, mitigated - actual)]]

\* CombatEntity.heal
Heal(e, amount) ==
    LET actual == Min(amount, e.max_hp - e.current_hp)
    IN [e EXCEPT !.current_hp = e.current_hp + actual]

HasStatus(e, code) == code \in DOMAIN e.statuses

\* StatusInstance.add_stacks; max_stacks is {} for None, else {limit}
AddStacks(inst, amount, max_stacks) ==
    LET s == inst.stacks + amount
    IN [inst EXCEPT !.stacks = IF max_stacks = {} THEN s
                               ELSE Min(s, CHOOSE m \in max_stacks : TRUE)]

\* CombatEntity.add_status
AddStatus(e, code, duration, stacks, max_stacks) ==
    IF code \in DOMAIN e.statuses
    THEN LET existing == e.statuses[code]
             refreshed == [existing EXCEPT !.remaining = Max(existing.remaining, duration)]
         IN [e EXCEPT !.statuses = Put(e.statuses, code,
                                        AddStacks(refreshed, stacks, max_stacks))]
    ELSE [e EXCEPT !.statuses = Put(e.statuses, code,
                                    [remaining |-> duration, stacks |-> stacks])]

\* CombatEntity.remove_status
RemoveStatus(e, code) == [e EXCEPT !.statuses = Del(e.statuses, code)]

\* a tick_cooldowns that removes an entry only once it has gone below 0
TickCooldownsKeepingZero(e) ==
    LET dec == [k \in DOMAIN e.cooldowns |-> e.cooldowns[k] - 1]
        keep == {k \in DOMAIN dec : dec[k] >= 0}
    IN [e EXCEPT !.cooldowns = [k \in keep |-> dec[k]]]

\* CombatEntity.tick_cooldowns
TickCooldowns(e) ==
    LET dec == [k \in DOMAIN e.cooldowns |-> e.cooldowns[k] - 1]
        keep == {k \in DOMAIN dec : dec[k] > 0}
    IN [e EXCEPT !.cooldowns = [k \in keep |-> dec[k]]]

\* CombatEntity.set_cooldown
SetCooldown(e, id, turns) ==
    IF turns > 0 THEN [e EXCEPT !.cooldowns = Put(e.cooldowns, id, turns)] ELSE e

\* CombatEntity.is_on_cooldown
IsOnCooldown(e, id) == id \in DOMAIN e.cooldowns

\* an add_echo that adds the amount whatever echo_max is
AddEchoUnclamped(e, amount) == [e EXCEPT !.echo_current = e.echo_current + amount]

\* PlayerCombatEntity.add_echo
AddEcho(e, amount) ==
    LET actual == Min(amount, e.echo_max - e.echo_current)
    IN [e EXCEPT !.echo_current = e.echo_current + actual]

\* PlayerCombatEntity.consume_echo
ConsumeEcho(e, cost) ==
    IF e.echo_current >= cost THEN [e EXCEPT !.echo_current = e.echo_current - cost] ELSE e

\* PlayerCombatEntity.can_use_spell: "OK" or the reason
CanUseSpell(e, spell) ==
    IF IsOnCooldown(e, spell.id) THEN "On cooldown"
    ELSE IF spell.echo_cost > 0 /\ e.echo_current < spell.echo_cost THEN "Not enough Echo"
    ELSE "OK"

-----------------------------------------------------------------------------
(* Formula engine and effect VM.  A battle b is a record: b.session (the     *)
(* session object the Battle holds), b.player, b.monster, b.last_damage     *)
(* (<<>> for None, else <<DamageResult>>), b.tape / b.ti (the draws of      *)
(* battle.rng and how many were taken).  src and tgt are "player" or        *)
(* "monster": the entity an effect's source and target refer to.            *)

\* the next rng.random() draw
Draw(b) == b.tape[(b.ti % Len(b.tape)) + 1]

\* the battle after one draw
Drawn(b) == [b EXCEPT !.ti = b.ti + 1]

\* the scope eval_formula builds, for the names the content uses
Scope(b, src, tgt, name) ==
    CASE name = "ONE" -> 1
      [] name = "AD" -> b[src].stats.ad
      [] name = "AP" -> b[src].stats.ap
      [] name = "HP" -> b[src].current_hp
      [] name = "MAX_HP" -> b[src].max_hp
      [] name = "T_HP" -> b[tgt].current_hp
      [] name = "T_MAX_HP" -> b[tgt].max_hp
      [] name = "T_MISSING_HP" -> b[tgt].max_hp - b[tgt].current_hp
      [] name = "S_SHIELD" -> Get(b[src].gauges, "shield", 0)
      [] name = "T_SHIELD" -> Get(b[tgt].gauges, "shield", 0)
      [] OTHER -> 0

\* the names eval_formula puts in the scope, among those the content uses
ScopeNames ==
    {"ONE", "AD", "AP", "HP", "MAX_HP", "T_HP", "T_MAX_HP", "T_MISSING_HP", "S_SHIELD",
     "T_SHIELD"}

\* eval_formula: the value of the formula in tenths; eval() of a name that is
\* not in the scope raises, which eval_formula catches to return 0.0
EvalFormula(f, b, src, tgt) ==
    IF f.var \in ScopeNames THEN f.k10 * Scope(b, src, tgt, f.var) + 10 * f.c ELSE 0

\* int(eval_formula(...))
EvalInt(f, b, src, tgt) == Trunc(EvalFormula(f, b, src, tgt), 10)

\* effect_damage ("damage")
EffectDamage(b, src, tgt, params) ==
    LET formula == Get(params, "formula", Const(0))
        damage_type == Get(params, "damage_type", "PHYSICAL")
        variance == Get(params, "variance", 0)
        can_crit == Get(params, "can_crit", FALSE)
        base == EvalFormula(formula, b, src, tgt)
        b1 == IF variance > 0 THEN Drawn(b) ELSE b
        rollNum == IF variance > 0 THEN 10000 + (2 * Draw(b) - 100) * variance ELSE 10000
        is_crit == can_crit /\ Draw(b1) < b[src].stats.crit_chance
        b2 == IF can_crit THEN Drawn(b1) ELSE b1
        critNum == IF is_crit THEN b[src].stats.crit_damage ELSE 10
        amount == Trunc(base * rollNum * critNum, 10 * 10000 * 10)
        hit == TakeDamage(b[tgt], amount, damage_type)
    IN [b2 EXCEPT ![tgt] = hit.entity,
                  !.last_damage = <<[hit.result EXCEPT !.was_critical = is_crit]>>]

\* effect_damage_percent_max_hp; percent in hundredths
EffectDamagePercentMaxHp(b, src, tgt, params) ==
    LET percent == Get(params, "percent", 5)
        damage_type == Get(params, "damage_type", "TRUE")
        damage == Trunc(b[tgt].max_hp * percent, 100)
    IN [b EXCEPT ![tgt] = TakeDamage(b[tgt], damage, damage_type).entity]

\* effect_heal ("heal")
EffectHeal(b, src, tgt, params) ==
    LET amount == EvalInt(Get(params, "formula", Const(0)), b, src, tgt)
    IN [b EXCEPT ![tgt] = Heal(b[tgt], amount)]

\* effect_heal_percent_max_hp; percent in hundredths
EffectHealPercentMaxHp(b, src, tgt, params) ==
    LET percent == Get(params, "percent", 10)
        amount == Trunc(b[tgt].max_hp * percent, 100)
    IN [b EXCEPT ![tgt] = Heal(b[tgt], amount)]

\* effect_lifesteal; percent in hundredths
EffectLifesteal(b, src, tgt, params) ==
    LET percent == Get(params, "percent", 20)
    IN IF b.last_damage = <<>> THEN b
       ELSE [b EXCEPT ![src] =
                Heal(b[src], Trunc(b.last_damage[1].final_damage * percent, 100))]

\* effect_shield ("shield")
EffectShield(b, src, tgt, params) ==
    LET amount == EvalInt(Get(params, "formula", Const(0)), b, src, tgt)
        current_shield == Get(b[tgt].gauges, "shield", 0)
    IN IF amount <= 0 THEN b
       ELSE [b EXCEPT ![tgt].gauges = Put(b[tgt].gauges, "shield", current_shield + amount)]

\* effect_remove_shield: without "amount" the shield is cleared
EffectRemoveShield(b, src, tgt, params) ==
    LET current_shield == Get(b[tgt].gauges, "shield", 0)
    IN IF "amount" \notin DOMAIN params
       THEN [b EXCEPT ![tgt].gauges = Put(b[tgt].gauges, "shield", 0)]
       ELSE LET removed == Min(params.amount, current_shield)
            IN [b EXCEPT ![tgt].gauges =
                    Put(b[tgt].gauges, "shield", current_shield - removed)]

\* hasattr(entity, 'echo_current'): only the player entity has an Echo gauge
HasEcho(who) == who = "player"

\* effect_build_gauge
EffectBuildGauge(b, src, tgt, params) ==
    LET gauge == Get(params, "gauge", "echo")
        target_self == Get(params, "target_self", gauge = "echo")
        amount == IF "formula" \in DOMAIN params
                  THEN EvalInt(params.formula, b, src, tgt)
                  ELSE Get(params, "amount", 0)
        who == IF target_self THEN src ELSE tgt
    IN IF "only_if_target_has_status" \in DOMAIN params
          /\ ~HasStatus(b[tgt], params.only_if_target_has_status)
       THEN b
       ELSE IF gauge = "echo" /\ HasEcho(who)
       THEN IF amount > 0
            THEN [b EXCEPT ![who] = AddEcho(b[who], amount)]
            ELSE [b EXCEPT ![who].echo_current = Max(0, b[who].echo_current + amount)]
       ELSE [b EXCEPT ![who].gauges =
                Put(b[who].gauges, gauge, Max(0, Get(b[who].gauges, gauge, 0) + amount))]

\* effect_consume_gauge: always on the source
EffectConsumeGauge(b, src, tgt, params) ==
    LET gauge == Get(params, "gauge", "echo")
        amount == Get(params, "amount", 0)
        require_full == Get(params, "require_full", TRUE)
    IN IF gauge = "echo" /\ HasEcho(src)
       THEN IF require_full /\ b[src].echo_current < amount THEN b
            ELSE [b EXCEPT ![src].echo_current =
                     b[src].echo_current - Min(amount, b[src].echo_current)]
       ELSE LET current == Get(b[src].gauges, gauge, 0)
            IN IF require_full /\ current < amount THEN b
               ELSE [b EXCEPT ![src].gauges =
                        Put(b[src].gauges, gauge, current - Min(amount, current))]

\* effect_set_gauge
EffectSetGauge(b, src, tgt, params) ==
    LET gauge == Get(params, "gauge", "echo")
        value == Get(params, "value", 0)
        who == IF Get(params, "target_self", TRUE) THEN src ELSE tgt
    IN IF gauge = "echo" /\ HasEcho(who)
       THEN [b EXCEPT ![who].echo_current = Min(value, b[who].echo_max)]
       ELSE [b EXCEPT ![who].gauges = Put(b[who].gauges, gauge, value)]

\* effect_apply_status; chance is a formula, the roll resists when random() > chance
EffectApplyStatus(b, src, tgt, params) ==
    LET status_code == Get(params, "status_code", "")
        duration == Get(params, "duration_turns", 1)
        stacks == Get(params, "stacks", 1)
        max_stacks == IF "max_stacks" \in DOMAIN params THEN {params.max_stacks} ELSE {}
        chance10 == Min(10, Max(0, EvalFormula(Get(params, "chance", Const(1)), b, src, tgt)))
    IN IF status_code = "" THEN b
       ELSE IF Draw(b) * 10 > chance10 * 100 THEN Drawn(b)
       ELSE [Drawn(b) EXCEPT ![tgt] = AddStatus(b[tgt], status_code, duration, stacks,
                                                 max_stacks)]

-----------------------------------------------------------------------------
(* run_effects (core/engine/effect_registry.py) *)

\* effect.get("order", 0)
OrderOf(e) == Get(e, "order", 0)

RECURSIVE SortFrom(_, _)
\* the effects whose order is in os, ascending by order, list order kept among equals
SortFrom(effects, os) ==
    IF os = {} THEN <<>>
    ELSE LET m == CHOOSE x \in os : \A y \in os : x <= y
         IN SelectSeq(effects, LAMBDA e : OrderOf(e) = m) \o SortFrom(effects, os \ {m})

\* a run_effects that runs the effects in the order of the list
SortEffectsAsListed(effects) == effects

\* sorted(effects, key=lambda e: e.get("order", 0)): a stable sort
SortEffects(effects) == SortFrom(effects, {OrderOf(effects[i]) : i \in DOMAIN effects})

RECURSIVE RunEffects(_, _, _, _)

\* effect_if_condition: condition is a formula, truthy when not 0
EffectIfCondition(b, src, tgt, params) ==
    IF EvalFormula(Get(params, "condition", Const(1)), b, src, tgt) # 0
    THEN RunEffects(b, src, tgt, Get(params, "then_effects", <<>>))
    ELSE RunEffects(b, src, tgt, Get(params, "else_effects", <<>>))

\* REGISTRY lookup and call of one effect; an unknown opcode is skipped
ApplyEffect(b, src, tgt, e) ==
    LET params == Get(e, "params", EmptyMap)
        opcode == Get(e, "opcode", "")
    IN CASE opcode = "damage" -> EffectDamage(b, src, tgt, params)
         [] opcode = "damage_percent_max_hp" -> EffectDamagePercentMaxHp(b, src, tgt, params)
         [] opcode = "heal" -> EffectHeal(b, src, tgt, params)
         [] opcode = "heal_percent_max_hp" -> EffectHealPercentMaxHp(b, src, tgt, params)
         [] opcode = "lifesteal" -> EffectLifesteal(b, src, tgt, params)
         [] opcode = "shield" -> EffectShield(b, src, tgt, params)
         [] opcode = "remove_shield" -> EffectRemoveShield(b, src, tgt, params)
         [] opcode = "build_gauge" -> EffectBuildGauge(b, src, tgt, params)
         [] opcode = "consume_gauge" -> EffectConsumeGauge(b, src, tgt, params)
         [] opcode = "set_gauge" -> EffectSetGauge(b, src, tgt, params)
         [] opcode = "apply_status" -> EffectApplyStatus(b, src, tgt, params)
         [] opcode = "if_condition" -> EffectIfCondition(b, src, tgt, params)
         [] OTHER -> b

\* the params a handler converts with float() or int() before anything else
ConvertedParams(opcode) ==
    CASE opcode = "damage" -> {"variance"}
      [] opcode \in {"damage_percent_max_hp", "heal_percent_max_hp", "lifesteal"} ->
             {"percent"}
      [] opcode \in {"consume_gauge", "set_gauge"} -> {"amount", "value"}
      [] OTHER -> {}

\* the handler of effect e raises: a param it converts holds a text that is not a
\* number (e.unparsable names the params of the payload that hold such a text)
HandlerRaises(e) ==
    ConvertedParams(Get(e, "opcode", "")) \cap Get(e, "unparsable", {}) # {}

\* a run_effects that logs the exception of a handler and goes on to the next effect
CallHandlerSwallowing(b, src, tgt, e) ==
    IF HandlerRaises(e) THEN b ELSE ApplyEffect(b, src, tgt, e)

\* the try block of run_effects: the handler's exception is logged and raised
\* again; b.raised keeps the session object as it is at that moment
CallHandler(b, src, tgt, e) ==
    IF HandlerRaises(e) THEN [b EXCEPT !.raised = <<b.session>>]
    ELSE ApplyEffect(b, src, tgt, e)

RECURSIVE RunSeq(_, _, _, _)
\* the loop of run_effects over the sorted effects; an exception ends it
RunSeq(b, src, tgt, es) ==
    IF es = <<>> \/ b.raised # <<>> THEN b
    ELSE RunSeq(CallHandler(b, src, tgt, Head(es)), src, tgt, Tail(es))

RunEffects(b, src, tgt, effects) == RunSeq(b, src, tgt, SortEffects(effects))

-----------------------------------------------------------------------------
(* Status engine (core/engine/status_engine.py) *)

\* the order in which an entity's statuses map is walked
StatusOrder == <<"POISON", "CURSE", "BURN">>

RECURSIVE Repeat(_, _, _, _)
\* run one tick effect n times with source = target = who
Repeat(b, who, effect, n) ==
    IF n <= 0 THEN b ELSE Repeat(RunEffects(b, who, who, <<effect>>), who, effect, n - 1)

RECURSIVE TickFrom(_, _, _, _, _)
\* the loop of _process_status_ticks over the statuses present when it started
TickFrom(b, who, trigger, snapshot, i) ==
    IF i > Len(StatusOrder) THEN b
    ELSE LET code == StatusOrder[i]
         IN IF code \in DOMAIN snapshot /\ code \in DOMAIN StatusDefs
               /\ StatusDefs[code].tick_trigger = trigger
            THEN LET def == StatusDefs[code]
                     stacks == IF code \in DOMAIN b[who].statuses
                               THEN b[who].statuses[code].stacks
                               ELSE snapshot[code].stacks
                     tick_count == IF def.is_stackable THEN stacks ELSE 1
                 IN TickFrom(Repeat(b, who, def.tick_effect, tick_count),
                             who, trigger, snapshot, i + 1)
            ELSE TickFrom(b, who, trigger, snapshot, i + 1)

\* _process_status_ticks
ProcessStatusTicks(b, who, trigger) == TickFrom(b, who, trigger, b[who].statuses, 1)

\* a decrement that removes a status only once its remaining turns are below 0
DecrementKeepingZero(b, who) ==
    LET st == b[who].statuses
        dec == [c \in DOMAIN st |-> [st[c] EXCEPT !.remaining = st[c].remaining - 1]]
        keep == {c \in DOMAIN st : dec[c].remaining >= 0}
    IN [b EXCEPT ![who].statuses = [c \in keep |-> dec[c]]]

\* _decrement_status_durations
DecrementStatusDurations(b, who) ==
    LET st == b[who].statuses
        dec == [c \in DOMAIN st |-> [st[c] EXCEPT !.remaining = st[c].remaining - 1]]
        keep == {c \in DOMAIN st : dec[c].remaining > 0}
    IN [b EXCEPT ![who].statuses = [c \in keep |-> dec[c]]]

\* process_turn_start
ProcessTurnStart(b, who) == ProcessStatusTicks(b, who, "ON_TURN_START")

\* entity.tick_cooldowns() of process_turn_end
TickEntityCooldowns(b, who) == [b EXCEPT ![who] = TickCooldowns(b[who])]

\* process_turn_end
ProcessTurnEnd(b, who) ==
    TickEntityCooldowns(
        DecrementStatusDurations(ProcessStatusTicks(b, who, "ON_TURN_END"), who), who)

-----------------------------------------------------------------------------
(* CombatSession (domain/entities/combat.py) *)

ActiveStatuses == {"PENDING", "IN_PROGRESS", "PLAYER_TURN", "MONSTER_TURN"}

TerminalStatuses == {"VICTORY", "DEFEAT", "ABANDONED"}

\* CombatSession.start
SessionStart(s) == [s EXCEPT !.status = "PLAYER_TURN", !.turn_count = 1]

\* CombatSession.next_turn
NextTurn(s) ==
    IF s.current_turn_entity = "player"
    THEN [s EXCEPT !.current_turn_entity = "monster", !.status = "MONSTER_TURN"]
    ELSE [s EXCEPT !.current_turn_entity = "player", !.status = "PLAYER_TURN",
                   !.turn_count = s.turn_count + 1]

\* CombatSession.end_victory
EndVictory(s) == [s EXCEPT !.status = "VICTORY", !.ended = TRUE]

\* CombatSession.end_defeat
EndDefeat(s) == [s EXCEPT !.status = "DEFEAT", !.ended = TRUE]

\* CombatSession.abandon
Abandon(s) == [s EXCEPT !.status = "ABANDONED", !.ended = TRUE]

\* CombatSession.is_active
IsActive(s) == s.status \in ActiveStatuses

-----------------------------------------------------------------------------
(* Battle (core/engine/combat_engine.py) and the monster AI *)

\* Battle.check_victory_conditions: the battle after the call and what it returned
CheckVictoryConditions(b) ==
    IF IsDead(b.monster)
    THEN [b |-> [b EXCEPT !.session = EndVictory(b.session)], result |-> "victory"]
    ELSE IF IsDead(b.player)
    THEN [b |-> [b EXCEPT !.session = EndDefeat(b.session)], result |-> "defeat"]
    ELSE [b |-> b, result |-> "none"]

\* a rejected player action
Refused(b, message) == [b |-> b, success |-> FALSE, message |-> message]

\* an accepted player action
Done(b) == [b |-> b, success |-> TRUE, message |-> "OK"]

\* a cast that takes no Echo from the caster
PayEchoWaived(b, spell) == b

\* player_cast_spell: consume Echo if required
PayEcho(b, spell) ==
    IF spell.echo_cost > 0
    THEN [b EXCEPT !.player = ConsumeEcho(b.player, spell.echo_cost)]
    ELSE b

\* player_cast_spell: set cooldown
SetPlayerCooldown(b, spell) ==
    IF spell.cooldown_turns > 0
    THEN [b EXCEPT !.player = SetCooldown(b.player, spell.id, spell.cooldown_turns)]
    ELSE b

\* self.player.add_echo(amount)
GainEcho(b, amount) == [b EXCEPT !.player = AddEcho(b.player, amount)]

\* player_cast_spell: base Echo gain for attacking
GainCastEcho(b, spell) ==
    IF spell.spell_type # "ULTIMATE"
    THEN GainEcho(b, 5 + (IF spell.spell_type = "SKILL" THEN 10 ELSE 0))
    ELSE b

\* the result of a cast that ran the spell's effects before it asked can_use_spell
EagerCast(b, b2, spell) ==
    IF CanUseSpell(b.player, spell) # "OK"
    THEN Refused(b2, CanUseSpell(b.player, spell))
    ELSE Done(GainCastEcho(SetPlayerCooldown(PayEcho(b2, spell), spell), spell))

\* a cast that runs the spell's effects before it asks can_use_spell
PlayerCastSpellEager(b, spell) ==
    IF b.session.status # "PLAYER_TURN" THEN Refused(b, "Not your turn")
    ELSE EagerCast(b, RunEffects(b, "player", "monster", spell.effects), spell)

\* Battle.player_cast_spell
PlayerCastSpell(b, spell) ==
    IF b.session.status # "PLAYER_TURN" THEN Refused(b, "Not your turn")
    ELSE IF CanUseSpell(b.player, spell) # "OK"
    THEN Refused(b, CanUseSpell(b.player, spell))
    ELSE Done(GainCastEcho(
                  SetPlayerCooldown(
                      RunEffects(PayEcho(b, spell), "player", "monster", spell.effects),
                      spell),
                  spell))

\* the basic_effect of Battle.player_basic_attack; variance in hundredths
PlayerBasicEffect ==
    [opcode |-> "damage",
     params |-> [formula |-> Lin(10, "AD", 0), damage_type |-> "PHYSICAL",
                 can_crit |-> TRUE, variance |-> 10]]

\* Battle.player_basic_attack
PlayerBasicAttack(b) ==
    IF b.session.status # "PLAYER_TURN" THEN Refused(b, "Not your turn")
    ELSE Done(GainEcho(RunEffects(b, "player", "monster", <<PlayerBasicEffect>>), 5))

\* PlayerCombatEntity.use_consumable, when uses remain
UseConsumable(b) == [b EXCEPT !.player.consumable_uses_remaining = @ - 1]

\* Battle.player_use_consumable
PlayerUseConsumable(b, effects_data) ==
    IF b.session.status # "PLAYER_TURN" THEN Refused(b, "Not your turn")
    ELSE IF ~(b.player.consumable_uses_remaining > 0)
    THEN Refused(b, "No consumable uses remaining")
    ELSE Done(RunEffects(UseConsumable(b), "player", "player", effects_data))

\* the end of player_end_turn and monster_end_turn, from the victory check c on:
\* the turn passes and the start-of-turn effects of the next entity run
PassTurn(c, next) ==
    IF c.result # "none" THEN c.b
    ELSE ProcessTurnStart([c.b EXCEPT !.session = NextTurn(c.b.session)], next)

\* Battle.player_end_turn
PlayerEndTurn(b) ==
    PassTurn(CheckVictoryConditions(ProcessTurnEnd(b, "player")), "monster")

\* Battle.monster_end_turn
MonsterEndTurn(b) ==
    PassTurn(CheckVictoryConditions(ProcessTurnEnd(b, "monster")), "player")

\* _check_ability_condition: no condition_expr, or bool() of its value
CheckAbilityCondition(b, ability) ==
    ability.condition_expr = <<>>
    \/ EvalFormula(ability.condition_expr[1], b, "monster", "player") # 0

RECURSIVE SumPriority(_)
SumPriority(abilities) ==
    IF abilities = <<>> THEN 0 ELSE Head(abilities).priority + SumPriority(Tail(abilities))

RECURSIVE PickWeighted(_, _, _, _)
\* the loop of _select_basic: the first ability whose cumulative weight reaches
\* the roll (roll in hundredths)
PickWeighted(abilities, roll, cumulative, i) ==
    IF i > Len(abilities) THEN abilities[1]
    ELSE IF roll <= (cumulative + abilities[i].priority) * 100 THEN abilities[i]
    ELSE PickWeighted(abilities, roll, cumulative + abilities[i].priority, i + 1)

\* _select_basic: the battle after the draw and the chosen ability
SelectBasic(abilities, b) ==
    [b |-> Drawn(b),
     ability |-> <<PickWeighted(abilities, Draw(b) * SumPriority(abilities), 0, 1)>>]

\* sorted(abilities, key=lambda a: a.priority, reverse=True)[0]: the first of
\* the abilities with the highest priority
Strongest(abilities) ==
    abilities[CHOOSE i \in DOMAIN abilities :
                  \A j \in DOMAIN abilities :
                      \/ abilities[j].priority < abilities[i].priority
                      \/ abilities[j].priority = abilities[i].priority /\ i <= j]

\* a boss that picks by weighted random selection in every phase
SelectBossWeighted(abilities, b) == SelectBasic(abilities, b)

\* _select_boss: weighted random above 70% HP, the strongest with 60% chance
\* above 40% HP, always the strongest from 40% HP down
SelectBoss(abilities, b) ==
    IF ~HpPercentLe(b.monster, 70) THEN SelectBasic(abilities, b)
    ELSE IF ~HpPercentLe(b.monster, 40)
    THEN IF Draw(b) < 60 THEN [b |-> Drawn(b), ability |-> <<Strongest(abilities)>>]
         ELSE SelectBasic(abilities, Drawn(b))
    ELSE [b |-> b, ability |-> <<Strongest(abilities)>>]

\* the end of select_monster_action, for the behaviours "boss" and "basic" (the
\* latter also for an unknown ai_behavior); <<>> stands for None
SelectAmong(valid_abilities, b) ==
    IF valid_abilities = <<>> THEN [b |-> b, ability |-> <<>>]
    ELSE IF b.monster.ai_behavior = "boss" THEN SelectBoss(valid_abilities, b)
    ELSE SelectBasic(valid_abilities, b)

\* select_monster_action: the abilities not on cooldown whose condition is met
ValidAbilities(b) ==
    SelectSeq(b.monster.abilities,
              LAMBDA a : ~IsOnCooldown(b.monster, a.id) /\ CheckAbilityCondition(b, a))

\* select_monster_action
SelectMonsterAction(b) == SelectAmong(ValidAbilities(b), b)

\* the fallback basic_effect of Battle.monster_take_turn
MonsterBasicEffect ==
    [opcode |-> "damage",
     params |-> [formula |-> Lin(10, "AD", 0), damage_type |-> "PHYSICAL"]]

\* monster_take_turn: set cooldown
SetMonsterCooldown(b, ability) ==
    IF ability.cooldown > 0
    THEN [b EXCEPT !.monster = SetCooldown(b.monster, ability.id, ability.cooldown)]
    ELSE b

\* monster_take_turn: the selected ability's effects and its cooldown, or the
\* fallback basic attack
MonsterRunEffects(b, ability) ==
    IF ability # <<>>
    THEN SetMonsterCooldown(
             RunEffects(b, "monster", "player", ability[1].effects), ability[1])
    ELSE RunEffects(b, "monster", "player", <<MonsterBasicEffect>>)

\* monster_take_turn from the selected action on
MonsterAct(b, ability) == MonsterEndTurn(MonsterRunEffects(b, ability))

\* select_monster_action and the rest of monster_take_turn
MonsterSelectAndAct(sel) == MonsterAct(sel.b, sel.ability)

\* a monster_take_turn that leaves the monster's turn for a later request
MonsterTakeTurnDeferred(b) == b

\* Battle.monster_take_turn
MonsterTakeTurn(b) ==
    IF b.session.status # "MONSTER_TURN" THEN b
    ELSE MonsterSelectAndAct(SelectMonsterAction(b))

\* Battle.sync_to_session
SyncToSession(b) ==
    [b EXCEPT !.session =
        [b.session EXCEPT !.player_current_hp = b.player.current_hp,
                          !.player_max_hp = b.player.max_hp,
                          !.player_echo_current = b.player.echo_current,
                          !.player_echo_max = b.player.echo_max,
                          !.player_statuses = b.player.statuses,
                          !.player_gauges = b.player.gauges,
                          !.monster_current_hp = b.monster.current_hp,
                          !.monster_max_hp = b.monster.max_hp,
                          !.monster_statuses = b.monster.statuses]]

-----------------------------------------------------------------------------
(* Content: spells of the equipped weapon, the consumable, monster abilities *)

Effect(opcode, order, params) == [opcode |-> opcode, order |-> order, params |-> params]

\* weapon spells; the last four carry negative amounts
SpellBook ==
    << [id |-> "ember", spell_type |-> "SKILL", cooldown_turns |-> 2, echo_cost |-> 0,
        effects |-> << Effect("apply_status", 2,
                              [status_code |-> "POISON", duration_turns |-> 2,
                               stacks |-> 1, max_stacks |-> 10]),
                       Effect("damage", 1,
                              [formula |-> Lin(6, "AP", 0), damage_type |-> "MAGIC"]) >>],
       [id |-> "nova", spell_type |-> "ULTIMATE", cooldown_turns |-> 0, echo_cost |-> 15,
        effects |-> << Effect("damage", 0,
                              [formula |-> Lin(20, "AP", 0), damage_type |-> "MAGIC"]) >>],
       [id |-> "hex", spell_type |-> "BASIC", cooldown_turns |-> 0, echo_cost |-> 0,
        effects |-> << Effect("heal", 0, [formula |-> Const(-WildAmt)]) >>],
       [id |-> "warp", spell_type |-> "BASIC", cooldown_turns |-> 1, echo_cost |-> 0,
        effects |-> << Effect("damage", 0,
                              [formula |-> Const(-WildAmt), damage_type |-> "TRUE"]) >>],
       [id |-> "surge", spell_type |-> "ULTIMATE", cooldown_turns |-> 0, echo_cost |-> 0,
        effects |-> << Effect("consume_gauge", 0,
                              [gauge |-> "echo", amount |-> -WildAmt]) >>],
       [id |-> "void", spell_type |-> "BASIC", cooldown_turns |-> 0, echo_cost |-> 0,
        effects |-> << Effect("set_gauge", 0, [gauge |-> "echo", value |-> -WildAmt]),
                       Effect("set_gauge", 1, [gauge |-> "shield", value |-> -WildAmt]) >>],
       [id |-> "flood", spell_type |-> "ULTIMATE", cooldown_turns |-> 0, echo_cost |-> 0,
        effects |-> << Effect("consume_gauge", 0,
                              [gauge |-> "echo", amount |-> -100]) >>],
       [id |-> "glitch", spell_type |-> "BASIC", cooldown_turns |-> 0, echo_cost |-> 0,
        effects |-> << Effect("damage", 0,
                              [formula |-> Const(5), damage_type |-> "TRUE"]),
                       [opcode |-> "lifesteal", order |-> 1, params |-> [percent |-> 0],
                        unparsable |-> {"percent"}] >>],
       [id |-> "jinx", spell_type |-> "BASIC", cooldown_turns |-> 0, echo_cost |-> 0,
        effects |-> << Effect("apply_status", 0,
                              [status_code |-> "CURSE", duration_turns |-> 2,
                               stacks |-> 1]) >>],
       [id |-> "ward", spell_type |-> "BASIC", cooldown_turns |-> 0, echo_cost |-> 0,
        effects |-> << Effect("damage", 1,
                              [formula |-> Const(50), damage_type |-> "PHYSICAL"]),
                       Effect("shield", 0, [formula |-> Const(30)]) >>] >>

SpellIds == {SpellBook[i].id : i \in DOMAIN SpellBook}

\* effects of the equipped consumable; percent in hundredths
ConsumableEffects == << Effect("heal_percent_max_hp", 0, [percent |-> 30]) >>

\* monster_bp.abilities; the condition_expr of rend names a variable that is not
\* in the scope of eval_formula
MonsterAbilities ==
    << [id |-> "shatter", name |-> "shatter", cooldown |-> 2, priority |-> 1,
        condition_expr |-> << Lin(10, "T_MISSING_HP", 0) >>,
        effects |-> << Effect("remove_shield", 0, EmptyMap),
                       Effect("damage", 1,
                              [formula |-> Lin(5, "AD", 0), damage_type |-> "PHYSICAL"]) >>],
       [id |-> "rend", name |-> "rend", cooldown |-> 0, priority |-> 3,
        condition_expr |-> << Lin(10, "T_RAGE", 1) >>,
        effects |-> << Effect("damage", 0,
                              [formula |-> Lin(20, "AD", 0), damage_type |-> "TRUE"]) >>] >>

-----------------------------------------------------------------------------
(* Use cases (application/use_cases/combat) over the repositories *)

\* CombatRepository.create_session: the row with the column defaults of
\* CombatSessionModel
CreateSession(player_id, monster_level, player_max_hp, monster_max_hp) ==
    [player_id |-> player_id, monster_level |-> monster_level,
     status |-> "PENDING", turn_count |-> 0, current_turn_entity |-> "player",
     player_current_hp |-> player_max_hp, player_max_hp |-> player_max_hp,
     player_echo_current |-> 0, player_echo_max |-> 100,
     player_statuses |-> EmptyMap, player_gauges |-> EmptyMap,
     monster_current_hp |-> monster_max_hp, monster_max_hp |-> monster_max_hp,
     monster_statuses |-> EmptyMap, ended |-> FALSE]

\* get_active_session_for_player: the ids of the rows the query selects
ActiveSessionsOf(ss, player_id) ==
    {i \in DOMAIN ss : ss[i].player_id = player_id /\ ss[i].status \in ActiveStatuses}

\* ExecuteActionUseCase._build_battle
BuildBattle(session, tape) ==
    [session |-> session,
     player |-> [stats |-> PlayerStats,
                 current_hp |-> session.player_current_hp,
                 max_hp |-> session.player_max_hp,
                 echo_current |-> session.player_echo_current,
                 echo_max |-> session.player_echo_max,
                 statuses |-> session.player_statuses,
                 gauges |-> session.player_gauges,
                 cooldowns |-> EmptyMap,
                 consumable_uses_remaining |-> 1],
     monster |-> [stats |-> MonsterStats(MonsterBp, session.monster_level),
                  current_hp |-> session.monster_current_hp,
                  max_hp |-> session.monster_max_hp,
                  statuses |-> session.monster_statuses,
                  gauges |-> EmptyMap,
                  cooldowns |-> EmptyMap,
                  ai_behavior |-> MonsterBp.ai_behavior,
                  abilities |-> MonsterAbilities],
     tape |-> tape, ti |-> 0, last_damage |-> <<>>, raised |-> <<>>]

\* ExecuteActionUseCase._session_to_state
SessionToState(b) ==
    [status |-> b.session.status,
     turn_count |-> b.session.turn_count,
     current_turn |-> b.session.current_turn_entity,
     player |-> [current_hp |-> b.player.current_hp, max_hp |-> b.player.max_hp,
                 echo_current |-> b.player.echo_current, echo_max |-> b.player.echo_max,
                 statuses |-> [c \in DOMAIN b.player.statuses |->
                                  b.player.statuses[c].stacks],
                 shield |-> Get(b.player.gauges, "shield", 0),
                 spell_cooldowns |-> b.player.cooldowns,
                 consumable_uses |-> b.player.consumable_uses_remaining],
     monster |-> [current_hp |-> b.monster.current_hp, max_hp |-> b.monster.max_hp,
                  statuses |-> [c \in DOMAIN b.monster.statuses |->
                                   b.monster.statuses[c].stacks]]]

\* what a use case returns: (None, error) has error # "" and no state; a
\* CombatActionResultDTO has error = "" and carries success, message,
\* combat_state, combat_ended, result
Answer(error, success, message, state, combat_ended, result) ==
    [error |-> error, success |-> success, message |-> message, state |-> state,
     combat_ended |-> combat_ended, result |-> result]

\* a response: the request it answers and the answer
Response(op, sid, player_id, action, spell_id, turn, answer) ==
    [op |-> op, sid |-> sid, player_id |-> player_id, action |-> action,
     spell_id |-> spell_id, turn |-> turn, error |-> answer.error,
     success |-> answer.success, message |-> answer.message, state |-> answer.state,
     combat_ended |-> answer.combat_ended, result |-> answer.result]

NoResponse == Response("none", 0, "", "", "", 0, Answer("", FALSE, "", <<>>, FALSE, "none"))

\* the outcome of a use case on the row it loaded: the row as the request leaves
\* it, whether update_session ran, whether _process_rewards ran, the answer
Outcome(session, updated, rewarded, answer) ==
    [session |-> session, updated |-> updated, rewarded |-> rewarded, answer |-> answer]

\* _find_spell
FindSpell(spell_id) == SelectSeq(SpellBook, LAMBDA sp : sp.id = spell_id)

\* the action dispatch of ExecuteActionUseCase.execute on a built battle
PlayerAction(b, action, spell_id) ==
    CASE action = "basic_attack" -> PlayerBasicAttack(b)
      [] action = "spell" -> PlayerCastSpell(b, FindSpell(spell_id)[1])
      [] action = "consumable" -> PlayerUseConsumable(b, ConsumableEffects)

\* execute: sync_to_session, update_session, the rewards on victory, the DTO
Persisted(b, result) ==
    Outcome(b.session, TRUE, result = "victory",
            Answer("", TRUE, "OK", <<SessionToState(b)>>, result # "none", result))

\* the answer to a request whose handler raised
ServerError == "Internal Server Error"

\* execute left by an exception of an effect handler: nothing is synced or
\* answered, the session object is as the exception found it
Propagated(b) ==
    Outcome(b.raised[1], FALSE, FALSE, Answer(ServerError, FALSE, "", <<>>, FALSE, "none"))

\* execute from the last check_victory_conditions on
AfterTurns(c) ==
    IF c.b.raised # <<>> THEN Propagated(c.b)
    ELSE Persisted(SyncToSession(c.b), c.result)

\* the database session of a request: what the handler changed is committed when
\* it returns and rolled back when it raises
GetDb(stored, out) ==
    IF out.answer.error = ServerError THEN stored ELSE out.session

\* execute from the check after player_end_turn on: the monster takes its turn
\* when the combat goes on and it is the monster's turn
AfterPlayerEndTurn(c) ==
    IF c.result = "none" /\ c.b.session.status = "MONSTER_TURN"
    THEN AfterTurns(CheckVictoryConditions(MonsterTakeTurn(c.b)))
    ELSE AfterTurns(c)

\* execute from the check after the player's action on
AfterActionCheck(c) ==
    IF c.result # "none" THEN AfterTurns(c)
    ELSE AfterPlayerEndTurn(CheckVictoryConditions(PlayerEndTurn(c.b)))

\* execute after the player's action r
AfterPlayerAction(session, r) ==
    IF ~r.success
    THEN Outcome(session, FALSE, FALSE,
                 Answer("", FALSE, r.message, <<SessionToState(r.b)>>, FALSE, "none"))
    ELSE AfterActionCheck(CheckVictoryConditions(r.b))

\* execute answering (None, error)
Fail(session, error) ==
    Outcome(session, FALSE, FALSE, Answer(error, FALSE, "", <<>>, FALSE, "none"))

\* ExecuteActionUseCase.execute on the row get_session_by_id returned
ExecuteCore(session, player_id, action, spell_id, tape) ==
    IF session.player_id # player_id THEN Fail(session, "This is not your combat session")
    ELSE IF session.status # "PLAYER_TURN"
    THEN Fail(session, "It's not your turn or combat has ended")
    ELSE IF action = "spell" /\ spell_id = ""
    THEN Fail(session, "Spell ID required for spell action")
    ELSE IF action = "spell" /\ FindSpell(spell_id) = <<>>
    THEN Fail(session, "Spell not found or not available")
    ELSE IF action \notin {"basic_attack", "spell", "consumable"}
    THEN Fail(session, "Unknown action type")
    ELSE AfterPlayerAction(session,
                           PlayerAction(BuildBattle(session, tape), action, spell_id))

\* the flee roll succeeds: random() < clamp(0.5 + speed_diff * 0.02, 0.1, 0.9),
\* with the draw in hundredths
FleeRollSucceeds(session, level, draw) ==
    LET player_speed == 10 + level
        monster_speed == MonsterBp.base_speed + session.monster_level
        speed_diff == player_speed - monster_speed
        flee_chance == Max(10, Min(90, 50 + speed_diff * 2))
    IN draw < flee_chance

\* a status check that only keeps pending sessions from fleeing
CanFleeFromStarted(status) == status # "PENDING"

\* the states FleeCombatUseCase.execute accepts
CanFleeFrom(status) == status \in {"PLAYER_TURN", "IN_PROGRESS"}

\* flee: the failed attempt, the player left with hp after the free attack
FleeFailed(session, hp) ==
    IF hp <= 0
    THEN Outcome([session EXCEPT !.player_current_hp = hp, !.status = "DEFEAT"],
                 TRUE, FALSE, Answer("", FALSE, "", <<>>, TRUE, "defeat"))
    ELSE Outcome([session EXCEPT !.player_current_hp = hp],
                 TRUE, FALSE, Answer("", FALSE, "", <<>>, FALSE, "none"))

\* FleeCombatUseCase.execute on the row get_session_by_id returned
FleeCore(session, player_id, level, draw) ==
    IF session.player_id # player_id THEN Fail(session, "This is not your combat session")
    ELSE IF ~CanFleeFrom(session.status)
    THEN Fail(session, "Cannot flee from this combat state")
    ELSE IF FleeRollSucceeds(session, level, draw)
    THEN Outcome([session EXCEPT !.status = "ABANDONED"], TRUE, FALSE,
                 Answer("", TRUE, "", <<>>, TRUE, "fled"))
    ELSE FleeFailed(session,
                    Max(0, session.player_current_hp - Trunc(MonsterBp.base_ad * 5, 10)))

\* _process_rewards with Battle.calculate_rewards, add_xp and add_gold; the xp
\* stays below xp_to_next_level, the level-up loop of add_xp does not run
ProcessRewards(ps, player_id) ==
    [ps EXCEPT ![player_id].current_xp = @ + MonsterBp.xp_reward,
               ![player_id].gold = @ + MonsterBp.gold_reward_min]

\* StartCombatUseCase.execute, given the rows get_active_session_for_player
\* selected and the id the new row gets: the row it creates (<<>> when it creates
\* none) and the response; the DTO it builds states PLAYER_TURN, turn 1
StartCombatCore(existing, sid, player_id, monster_level_in) ==
    LET monster_level == IF monster_level_in # 0 THEN monster_level_in
                         ELSE MonsterBp.base_level
        player_max_hp == PlayerStats.max_hp
        monster_max_hp == MonsterStats(MonsterBp, monster_level).max_hp
        mk(error, state) ==
            Response("start", IF error = "" THEN sid ELSE 0, player_id, "", "", 0,
                     Answer(error, error = "", "", state, FALSE, "none"))
        combat_state ==
            [status |-> "PLAYER_TURN", turn_count |-> 1, current_turn |-> "player",
             player |-> [current_hp |-> player_max_hp, max_hp |-> player_max_hp,
                         echo_current |-> 0, echo_max |-> 100, statuses |-> EmptyMap,
                         shield |-> 0, spell_cooldowns |-> EmptyMap,
                         consumable_uses |-> 1],
             monster |-> [current_hp |-> monster_max_hp, max_hp |-> monster_max_hp,
                          statuses |-> EmptyMap]]
    IN IF Cardinality(existing) > 1
       THEN [created |-> <<>>, response |-> mk("MultipleResultsFound", <<>>)]
       ELSE IF existing # {}
       THEN [created |-> <<>>,
             response |-> mk("You already have an active combat session", <<>>)]
       ELSE [created |-> <<CreateSession(player_id, monster_level, player_max_hp,
                                         monster_max_hp)>>,
             response |-> mk("", <<combat_state>>)]

-----------------------------------------------------------------------------
(* Requests served one at a time: every use case call is one transaction *)

Tapes == [1..TapeLen -> RandVals]

\* monster_level of StartCombatInput; 0 stands for an absent level
MonsterLevels == {0, 1}

ActionTypes == {"basic_attack", "spell", "consumable", "dance"}

\* spell_id of ExecuteActionInput; "" stands for an absent id
SpellInputs == SpellIds \cup {"", "unknown"}

\* the draws of random.random() in flee, in hundredths
FleeDraws == RandVals \cup {51}

Idle == [kind |-> "idle"]

Init ==
    /\ sessions = <<>>
    /\ players = [p \in Players |-> [level |-> 1, current_xp |-> 0, gold |-> 0]]
    /\ requests = [slot \in 1..MaxRequests |-> Idle]
    /\ response = NoResponse

\* POST /combat/start
StartCombat ==
    \E monster_level \in MonsterLevels :
        LET out == StartCombatCore(ActiveSessionsOf(sessions, Fighter), Len(sessions) + 1,
                                   Fighter, monster_level)
        IN /\ out.created = <<>> \/ Len(sessions) < MaxSessions
           /\ sessions' = sessions \o out.created
           /\ response' = out.response
           /\ UNCHANGED <<players, requests>>

\* Battle.start on a pending session, persisted
Start ==
    \E sid \in DOMAIN sessions :
        /\ sessions[sid].status = "PENDING"
        /\ sessions' = [sessions EXCEPT ![sid] = SessionStart(sessions[sid])]
        /\ response' = Response("battle_start", sid, sessions[sid].player_id, "", "", 0,
                                Answer("", TRUE, "", <<>>, FALSE, "none"))
        /\ UNCHANGED <<players, requests>>

\* POST /combat/{session_id}/action
ExecuteAction ==
    \E sid \in 1..MaxSessions, player_id \in Players, action \in ActionTypes,
       spell_id \in SpellInputs, tape \in Tapes :
        /\ action # "spell" => spell_id = ""
        /\ IF sid \notin DOMAIN sessions
           THEN /\ response' = Response("execute", sid, player_id, action, spell_id, 0,
                                        Answer("Combat session not found", FALSE, "",
                                               <<>>, FALSE, "none"))
                /\ UNCHANGED <<sessions, players>>
           ELSE LET out == ExecuteCore(sessions[sid], player_id, action, spell_id, tape)
                IN /\ sessions[sid].turn_count < MaxTurn
                      \/ sessions[sid].status # "PLAYER_TURN"
                   /\ sessions' = [sessions EXCEPT ![sid] = GetDb(sessions[sid], out)]
                   /\ players' = IF out.rewarded
                                 THEN ProcessRewards(players, sessions[sid].player_id)
                                 ELSE players
                   /\ response' = Response("execute", sid, player_id, action, spell_id,
                                           sessions[sid].turn_count, out.answer)
        /\ UNCHANGED requests

\* POST /combat/{session_id}/flee
Flee ==
    \E sid \in 1..MaxSessions, player_id \in Players, draw \in FleeDraws :
        /\ IF sid \notin DOMAIN sessions
           THEN /\ response' = Response("flee", sid, player_id, "flee", "", 0,
                                        Answer("Combat session not found", FALSE, "",
                                               <<>>, FALSE, "none"))
                /\ UNCHANGED sessions
           ELSE LET out == FleeCore(sessions[sid], player_id, players[player_id].level,
                                    draw)
                IN /\ sessions' = [sessions EXCEPT ![sid] = out.session]
                   /\ response' = Response("flee", sid, player_id, "flee", "",
                                           sessions[sid].turn_count, out.answer)
        /\ UNCHANGED <<players, requests>>

Next == StartCombat \/ Start \/ ExecuteAction \/ Flee

Spec == Init /\ [][Next]_vars

-----------------------------------------------------------------------------
(* Requests that interleave at the session store: a request reads its rows in *)
(* one step and flushes and commits in a later one, each in its own DB session *)

\* action_type values sent while requests interleave
ConcActionTypes == {"basic_attack"}

\* the draws of a request sent while requests interleave
ConcTapes == {[i \in 1..TapeLen |-> 0]}

\* the draw of a flee roll sent while requests interleave
ConcDraws == {0}

\* the UPDATE a flush emits: the columns whose value differs from the loaded one
WriteBack(stored, loaded, new) ==
    [f \in DOMAIN stored |-> IF new[f] # loaded[f] THEN new[f] ELSE stored[f]]

\* startCombat up to the answer of get_active_session_for_player
StartCombatRead ==
    \E slot \in 1..MaxRequests, monster_level \in MonsterLevels :
        /\ requests[slot] = Idle
        /\ Len(sessions) < MaxConcSessions
        /\ requests' = [requests EXCEPT ![slot] =
                           [kind |-> "start", player_id |-> Fighter,
                            monster_level |-> monster_level,
                            existing |-> ActiveSessionsOf(sessions, Fighter)]]
        /\ UNCHANGED <<sessions, players, response>>

\* startCombat from the check of the answer to the commit of the new row
StartCombatWrite ==
    \E slot \in 1..MaxRequests :
        /\ requests[slot].kind = "start"
        /\ LET req == requests[slot]
               out == StartCombatCore(req.existing, Len(sessions) + 1, req.player_id,
                                      req.monster_level)
           IN /\ out.created = <<>> \/ Len(sessions) < MaxConcSessions
              /\ sessions' = sessions \o out.created
              /\ response' = out.response
        /\ requests' = [requests EXCEPT ![slot] = Idle]
        /\ UNCHANGED players

\* executeAction up to the answer of get_session_by_id; the request's random()
\* draws are fixed here
ExecuteActionLoad ==
    \E slot \in 1..MaxRequests, sid \in DOMAIN sessions, action \in ConcActionTypes,
       tape \in ConcTapes :
        /\ requests[slot] = Idle
        /\ sessions[sid].turn_count < MaxConcTurn \/ sessions[sid].status # "PLAYER_TURN"
        /\ requests' = [requests EXCEPT ![slot] =
                           [kind |-> "execute", sid |-> sid, player_id |-> Fighter,
                            action |-> action, spell_id |-> "", tape |-> tape,
                            loaded |-> sessions[sid]]]
        /\ UNCHANGED <<sessions, players, response>>

\* executeAction from the ownership check to update_session, the rewards and
\* the commit
ExecuteActionCommit ==
    \E slot \in 1..MaxRequests :
        /\ requests[slot].kind = "execute"
        /\ LET req == requests[slot]
               out == ExecuteCore(req.loaded, req.player_id, req.action, req.spell_id,
                                  req.tape)
           IN /\ sessions' = [sessions EXCEPT ![req.sid] =
                                 WriteBack(sessions[req.sid], req.loaded,
                                           GetDb(req.loaded, out))]
              /\ players' = IF out.rewarded
                            THEN ProcessRewards(players, req.loaded.player_id)
                            ELSE players
              /\ response' = Response("execute", req.sid, req.player_id, req.action,
                                      req.spell_id, req.loaded.turn_count, out.answer)
        /\ requests' = [requests EXCEPT ![slot] = Idle]

\* flee up to the answer of get_session_by_id; the draw of the roll is fixed here
FleeLoad ==
    \E slot \in 1..MaxRequests, sid \in DOMAIN sessions, draw \in ConcDraws :
        /\ requests[slot] = Idle
        /\ requests' = [requests EXCEPT ![slot] =
                           [kind |-> "flee", sid |-> sid, player_id |-> Fighter,
                            draw |-> draw, loaded |-> sessions[sid]]]
        /\ UNCHANGED <<sessions, players, response>>

\* flee from the ownership check to update_session and the commit
FleeCommit ==
    \E slot \in 1..MaxRequests :
        /\ requests[slot].kind = "flee"
        /\ LET req == requests[slot]
               out == FleeCore(req.loaded, req.player_id, players[req.player_id].level,
                               req.draw)
           IN /\ sessions' = [sessions EXCEPT ![req.sid] =
                                 WriteBack(sessions[req.sid], req.loaded, out.session)]
              /\ response' = Response("flee", req.sid, req.player_id, "flee", "",
                                      req.loaded.turn_count, out.answer)
        /\ requests' = [requests EXCEPT ![slot] = Idle]
        /\ UNCHANGED players

NextConc ==
    \/ StartCombatRead \/ StartCombatWrite \/ Start
    \/ ExecuteActionLoad \/ ExecuteActionCommit
    \/ FleeLoad \/ FleeCommit

SpecConc == Init /\ [][NextConc]_vars

-----------------------------------------------------------------------------
(* Properties *)

\* the session an answered executeAction or flee request was about
Answered == response.op \in {"execute", "flee"} /\ response.error = ""

\* C1: after a successful startCombat the persisted status of the created session
\* is PLAYER_TURN and its turn_count is 1, the values the returned DTO reports
C1_StartPersistsPlayerTurn ==
    (response.op = "start" /\ response.error = "") =>
        /\ sessions[response.sid].status = "PLAYER_TURN"
        /\ sessions[response.sid].turn_count = 1
        /\ response.state[1].status = sessions[response.sid].status
        /\ response.state[1].turn_count = sessions[response.sid].turn_count

\* the moves of the status state machine
StatusStep(a, b) ==
    \/ a = b
    \/ a = "PENDING" /\ b = "PLAYER_TURN"
    \/ a = "PLAYER_TURN" /\ b = "MONSTER_TURN"
    \/ a = "MONSTER_TURN" /\ b = "PLAYER_TURN"
    \/ a \in {"PLAYER_TURN", "MONSTER_TURN"} /\ b \in TerminalStatuses

\* C2: the persisted status moves only along PENDING -> PLAYER_TURN <->
\* MONSTER_TURN -> terminal, and a session whose status is VICTORY, DEFEAT or
\* ABANDONED is not changed by any later executeAction or flee
C2_TerminalAbsorbing ==
    [][\A sid \in DOMAIN sessions :
          /\ StatusStep(sessions[sid].status, sessions'[sid].status)
          /\ sessions[sid].status \in TerminalStatuses => sessions'[sid] = sessions[sid]]_vars

\* an executeAction was turned down on a session that had ended
C2_Witness ==
    /\ response.op \in {"execute", "flee"}
    /\ response.player_id = Fighter
    /\ response.error \in {"It's not your turn or combat has ended",
                           "Cannot flee from this combat state"}
    /\ sessions[response.sid].status \in TerminalStatuses

\* C3: after a completed executeAction or flee the status is terminal exactly when
\* a current_hp is 0 or the player fled, and a non-terminal session gives the turn
\* to exactly one of player and monster
C3_TerminalIffDeadOrFled ==
    Answered =>
        LET s == sessions[response.sid]
        IN /\ s.status \in TerminalStatuses <=>
                 (s.player_current_hp = 0 \/ s.monster_current_hp = 0
                  \/ response.result = "fled")
           /\ s.status \notin TerminalStatuses =>
                 s.current_turn_entity \in {"player", "monster"}

\* C4: both entities of every session keep 0 <= current_hp <= max_hp
C4_HpWithinBounds ==
    \A sid \in DOMAIN sessions :
        /\ 0 <= sessions[sid].player_current_hp
        /\ sessions[sid].player_current_hp <= sessions[sid].player_max_hp
        /\ 0 <= sessions[sid].monster_current_hp
        /\ sessions[sid].monster_current_hp <= sessions[sid].monster_max_hp

\* C5: the player's echo keeps 0 <= echo_current <= echo_max
C5_EchoWithinBounds ==
    \A sid \in DOMAIN sessions :
        /\ 0 <= sessions[sid].player_echo_current
        /\ sessions[sid].player_echo_current <= sessions[sid].player_echo_max

\* C6: every named gauge, the shield included, is >= 0
C6_GaugesNonNegative ==
    \A sid \in DOMAIN sessions :
        \A g \in DOMAIN sessions[sid].player_gauges : sessions[sid].player_gauges[g] >= 0

\* C7: a player has at most one session with an active status, also when two
\* startCombat requests of the player interleave at the session store
C7_OneActiveSession ==
    \A p \in Players : Cardinality(ActiveSessionsOf(sessions, p)) <= 1

\* C8: mutations of one session are serialized, two interleaved requests are
\* never both applied to the same pre-state; so, as in every serial execution, the
\* reward of a won session is granted once
C8_NoDoubleReward ==
    \A p \in Players :
        players[p].current_xp <=
            MonsterBp.xp_reward
                * Cardinality({sid \in DOMAIN sessions :
                                  sessions[sid].player_id = p
                                  /\ sessions[sid].status = "VICTORY"})

\* the answers of executeAction that turn the request down: an error, or a
\* result that reports no success
RejectedByPrecondition(r) ==
    /\ r.op = "execute"
    /\ r.error # ServerError
    /\ r.error # "" \/ ~r.success

\* C9: an executeAction rejected by a precondition leaves the session, the player
\* rows and both entities as before the call: nothing is written, and the state
\* the answer carries is the state of the stored session
C9_RejectionLeavesState ==
    [][RejectedByPrecondition(response') =>
          /\ sessions' = sessions
          /\ players' = players
          /\ response'.state # <<>> =>
                response'.state[1] =
                    SessionToState(BuildBattle(sessions[response'.sid],
                                               [i \in 1..TapeLen |-> 0]))]_vars

\* a cast of the ultimate was turned down for lack of echo on the player's turn
C9_Witness ==
    /\ RejectedByPrecondition(response)
    /\ response.message = "Not enough Echo"
    /\ sessions[response.sid].status = "PLAYER_TURN"
    /\ sessions[response.sid].turn_count >= 2

\* C10: after a successful cast of a spell with cooldown_turns >= 2 that does not
\* end the combat, a cast of the same spell on the player's next turn is rejected
\* as on cooldown
C10_RecastNextTurnRejected ==
    [][(/\ response.op = "execute" /\ response.action = "spell"
        /\ response.error = "" /\ response.success /\ ~response.combat_ended
        /\ FindSpell(response.spell_id)[1].cooldown_turns >= 2
        /\ response'.op = "execute" /\ response'.action = "spell"
        /\ response'.sid = response.sid /\ response'.player_id = response.player_id
        /\ response'.spell_id = response.spell_id
        /\ response'.turn = response.turn + 1) =>
          (response'.error = "" /\ ~response'.success
           /\ response'.message = "On cooldown")]_vars

\* the fields of a combat state that the round trip is to reproduce: HP,
\* statuses, the shield gauge and cooldowns
RuntimeEntities(state) ==
    [player |-> [current_hp |-> state.player.current_hp, max_hp |-> state.player.max_hp,
                 echo_current |-> state.player.echo_current,
                 statuses |-> state.player.statuses, shield |-> state.player.shield,
                 spell_cooldowns |-> state.player.spell_cooldowns],
     monster |-> state.monster]

\* C11: the battle an executeAction synced and persisted, rebuilt from the stored
\* session, has the same entities as before the sync: same HP, statuses, shield
\* and cooldowns
C11_RebuildReproducesEntities ==
    (response.op = "execute" /\ response.error = "" /\ response.success) =>
        RuntimeEntities(SessionToState(BuildBattle(sessions[response.sid],
                                                   [i \in 1..TapeLen |-> 0])))
            = RuntimeEntities(response.state[1])

\* the spells with an echo cost that are ultimates and whose effects leave the
\* echo gauge alone
CostlyUltimates ==
    {SpellBook[i].id : i \in {j \in DOMAIN SpellBook :
        /\ SpellBook[j].echo_cost > 0
        /\ SpellBook[j].spell_type = "ULTIMATE"
        /\ \A k \in DOMAIN SpellBook[j].effects :
              SpellBook[j].effects[k].opcode \notin
                  {"build_gauge", "consume_gauge", "set_gauge"}}}

\* C12: a cast of a spell with echo_cost c > 0 on the player's turn is rejected for
\* lack of echo, the state unchanged, when echo_current < c; when echo_current >= c
\* it resolves and the echo of an ultimate that leaves the gauge alone drops by c
C12_EchoCostGate ==
    [][(/\ response'.op = "execute" /\ response'.action = "spell"
        /\ response'.spell_id \in CostlyUltimates
        /\ response'.error = "") =>
          LET s == sessions[response'.sid]
              c == FindSpell(response'.spell_id)[1].echo_cost
          IN IF s.player_echo_current < c
             THEN /\ ~response'.success
                  /\ response'.message = "Not enough Echo"
                  /\ sessions' = sessions
             ELSE /\ response'.success
                  /\ sessions'[response'.sid].player_echo_current
                         = s.player_echo_current - c]_vars

\* the ultimate was cast with exactly its cost in echo, which left none
C12_Witness ==
    /\ response.op = "execute" /\ response.action = "spell"
    /\ response.spell_id \in CostlyUltimates
    /\ response.error = "" /\ response.success
    /\ sessions[response.sid].player_echo_current = 0

\* the base Echo gain of a successful action: 5 for a basic attack and for a
\* BASIC spell, 15 for a SKILL, none for an ULTIMATE
BaseEchoGain(action, spell_id) ==
    IF action = "basic_attack" THEN 5
    ELSE IF FindSpell(spell_id)[1].spell_type = "ULTIMATE" THEN 0
    ELSE IF FindSpell(spell_id)[1].spell_type = "SKILL" THEN 15
    ELSE 5

\* the player's echo once the cost is paid and the effects of the action have run
EchoAfterEffects(session, action, spell_id) ==
    IF action = "basic_attack" THEN session.player_echo_current
    ELSE RunEffects(PayEcho(BuildBattle(session, [i \in 1..TapeLen |-> 0]),
                            FindSpell(spell_id)[1]),
                    "player", "monster",
                    FindSpell(spell_id)[1].effects).player.echo_current

\* C13: a successful basic attack or spell adds its base gain (5, 5 for BASIC, 15
\* for SKILL, 0 for ULTIMATE) to the echo the effects of the action left, the
\* result clamped to echo_max
C13_BaseEchoGain ==
    [][(/\ response'.op = "execute" /\ response'.action \in {"basic_attack", "spell"}
        /\ response'.error = "" /\ response'.success) =>
          LET s == sessions[response'.sid]
              e == EchoAfterEffects(s, response'.action, response'.spell_id)
              gain == BaseEchoGain(response'.action, response'.spell_id)
          IN sessions'[response'.sid].player_echo_current =
                 IF gain = 0 THEN e ELSE Min(e + gain, s.player_echo_max)]_vars

\* a skill was cast with the echo gauge full: the gain of 15 was clamped away
C13_Witness ==
    /\ response.op = "execute" /\ response.action = "spell"
    /\ response.error = "" /\ response.success
    /\ response.spell_id \in SpellIds
    /\ BaseEchoGain("spell", response.spell_id) = 15
    /\ sessions[response.sid].player_echo_current = sessions[response.sid].player_echo_max

\* C14: once a consumable action has succeeded in a session, a later consumable
\* executeAction of that session is rejected for having no uses remaining, so a
\* session sees at most 1 successful consumable action
C14_ConsumableUsedOnce ==
    [][(/\ response.op = "execute" /\ response.action = "consumable"
        /\ response.error = "" /\ response.success
        /\ response'.op = "execute" /\ response'.action = "consumable"
        /\ response'.sid = response.sid
        /\ response'.error = "") =>
          (~response'.success /\ response'.message = "No consumable uses remaining")]_vars

\* C15: a flee attempt that fails without ending the combat consumes the player's
\* turn and lets the monster take a turn: the session is back in PLAYER_TURN with
\* turn_count one higher
C15_FailedFleeCostsTurn ==
    [][(/\ response'.op = "flee" /\ response'.error = ""
        /\ ~response'.success /\ ~response'.combat_ended) =>
          /\ sessions'[response'.sid].status = "PLAYER_TURN"
          /\ sessions'[response'.sid].turn_count
                 = sessions[response'.sid].turn_count + 1]_vars

\* flee_chance from the two combatants' combat stats, in hundredths:
\* clamp(0.5 + 0.01 * (player.speed - monster.speed), 0.1, 0.9)
FleeChanceBySpeed(session) ==
    Max(10, Min(90, 50 + (PlayerStats.speed
                          - MonsterStats(MonsterBp, session.monster_level).speed)))

\* C16: flee succeeds exactly when the draw is below
\* clamp(0.5 + 0.01 * (player.speed - monster.speed), 0.1, 0.9)
C16_FleeChanceBySpeed ==
    \A sid \in DOMAIN sessions, draw \in FleeDraws :
        CanFleeFrom(sessions[sid].status) =>
            (FleeCore(sessions[sid], sessions[sid].player_id,
                      players[sessions[sid].player_id].level, draw).answer.success
             <=> draw < FleeChanceBySpeed(sessions[sid]))

\* the effect lists in which a handler raises: one that holds an effect whose
\* handler raises, or one that applies a status whose tick effect does
RaisingEffects(effects) ==
    \E k \in DOMAIN effects :
        \/ HandlerRaises(effects[k])
        \/ /\ effects[k].opcode = "apply_status"
           /\ effects[k].params.status_code \in DOMAIN StatusDefs
           /\ HandlerRaises(StatusDefs[effects[k].params.status_code].tick_effect)

\* the spells whose cast makes a handler raise within the request, in the
\* player's effect list or in the status tick at the end of the monster's turn
RaisingSpells ==
    {SpellBook[i].id : i \in {j \in DOMAIN SpellBook : RaisingEffects(SpellBook[j].effects)}}

\* C17: an executeAction in which an effect handler raises is rolled back: the
\* session (status, turn_count, current_turn_entity, HP, echo, statuses, gauges)
\* and the player rows are as before the call
C17_RaiseRollsBack ==
    [][(/\ response'.op = "execute" /\ response'.action = "spell"
        /\ response'.spell_id \in RaisingSpells
        /\ response'.sid \in DOMAIN sessions
        /\ sessions[response'.sid].player_id = response'.player_id
        /\ sessions[response'.sid].status = "PLAYER_TURN") =>
          /\ response'.error = ServerError
          /\ sessions' = sessions
          /\ players' = players]_vars

\* the tick of a status raised at the end of the monster's turn, after the
\* player's action and the monster's attack had run, on a session that had
\* already seen a turn
C17_Witness ==
    /\ response.op = "execute" /\ response.error = ServerError
    /\ response.spell_id = "jinx"
    /\ sessions[response.sid].status = "PLAYER_TURN"
    /\ sessions[response.sid].turn_count >= 2

\* C18: a session whose status is VICTORY, DEFEAT or ABANDONED has its ended_at
\* set, whichever operation ended the combat
C18_TerminalHasEndedAt ==
    \A sid \in DOMAIN sessions :
        sessions[sid].status \in TerminalStatuses => sessions[sid].ended

\* the ids of the monster's abilities
AbilityIds == {MonsterAbilities[i].id : i \in DOMAIN MonsterAbilities}

\* every entry of a cooldowns map is >= 1, and is_on_cooldown reports an id
\* exactly when the map holds it with a value >= 1
PositiveCooldowns(cooldowns, ids) ==
    /\ \A k \in DOMAIN cooldowns : cooldowns[k] >= 1
    /\ \A id \in ids :
          IsOnCooldown([cooldowns |-> cooldowns], id)
              <=> (id \in DOMAIN cooldowns /\ cooldowns[id] >= 1)

\* C19: once process_turn_end has run for an entity its cooldowns map holds only
\* values >= 1 and a spell or ability is on cooldown exactly when the map holds
\* its id: for the player in the state a successful executeAction answers, for
\* the monster after the turn it takes in any request a session can receive
C19_CooldownsPositive ==
    /\ (response.op = "execute" /\ response.error = "" /\ response.success) =>
          PositiveCooldowns(response.state[1].player.spell_cooldowns, SpellIds)
    /\ \A sid \in DOMAIN sessions, action \in {"basic_attack", "spell", "consumable"},
          spell_id \in SpellIds, tape \in Tapes :
          sessions[sid].status = "PLAYER_TURN" =>
              PositiveCooldowns(
                  MonsterTakeTurn(
                      PlayerEndTurn(
                          PlayerAction(BuildBattle(sessions[sid], tape),
                                       action, spell_id).b)).monster.cooldowns,
                  AbilityIds)

\* a spell with a cooldown of one turn was cast and the combat went on: the end
\* of the player's turn took its entry out of the map, while the skill cast
\* before would still be reported
C19_Witness ==
    /\ response.op = "execute" /\ response.action = "spell"
    /\ response.error = "" /\ response.success /\ ~response.combat_ended
    /\ response.spell_id \in SpellIds
    /\ FindSpell(response.spell_id)[1].cooldown_turns = 1
    /\ response.spell_id \notin DOMAIN response.state[1].player.spell_cooldowns

\* C20: when the player's effect list brings the monster's current_hp to 0,
\* executeAction ends the session in VICTORY at once: the session and the answer
\* show the entities as the effect list left them (no end-of-turn tick of the
\* player, no action of the monster) and turn_count is unchanged
C20_VictoryBeforeEndTurn ==
    \A sid \in DOMAIN sessions, action \in {"basic_attack", "spell", "consumable"},
       spell_id \in SpellIds, tape \in Tapes :
        LET s == sessions[sid]
            r == PlayerAction(BuildBattle(s, tape), action, spell_id)
            out == ExecuteCore(s, s.player_id, action, spell_id, tape)
        IN (/\ s.status = "PLAYER_TURN"
            /\ r.success /\ r.b.raised = <<>>
            /\ r.b.monster.current_hp = 0) =>
              /\ out.session.status = "VICTORY"
              /\ out.session.turn_count = s.turn_count
              /\ out.answer.combat_ended /\ out.answer.result = "victory"
              /\ out.rewarded
              /\ RuntimeEntities(out.answer.state[1]) = RuntimeEntities(SessionToState(r.b))
              /\ out.session.player_current_hp = r.b.player.current_hp
              /\ out.session.player_statuses = r.b.player.statuses
              /\ out.session.monster_statuses = r.b.monster.statuses

\* an executeAction whose attack took the monster's last HP was answered with a
\* victory in the turn it was sent
C20_Witness ==
    /\ response.op = "execute" /\ response.action \in {"basic_attack", "spell"}
    /\ response.error = "" /\ response.success
    /\ response.combat_ended /\ response.result = "victory"
    /\ sessions[response.sid].status = "VICTORY"
    /\ sessions[response.sid].monster_current_hp = 0
    /\ sessions[response.sid].turn_count = response.turn
    /\ sessions[response.sid].current_turn_entity = "player"

\* the battle as the monster's ability or basic attack leaves it, before
\* monster_end_turn, when the player's action (action, spell_id, tape) on
\* session s is accepted and the combat goes on to the monster's turn
AfterMonsterEffects(s, action, spell_id, tape) ==
    LET r == PlayerAction(BuildBattle(s, tape), action, spell_id)
        c == CheckVictoryConditions(PlayerEndTurn(r.b))
        sel == SelectMonsterAction(c.b)
    IN IF /\ s.status = "PLAYER_TURN" /\ r.success
          /\ CheckVictoryConditions(r.b).result = "none"
          /\ c.result = "none" /\ c.b.session.status = "MONSTER_TURN"
          /\ c.b.raised = <<>>
       THEN <<MonsterRunEffects(sel.b, sel.ability)>>
       ELSE <<>>

\* C21: when the monster's ability or basic attack leaves the player at 0 HP,
\* executeAction ends the session in DEFEAT and no end-of-turn status tick of the
\* monster runs: the monster's HP and statuses are those its effects left
C21_DefeatBeforeMonsterTick ==
    \A sid \in DOMAIN sessions, action \in {"basic_attack", "spell", "consumable"},
       spell_id \in SpellIds, tape \in Tapes :
        LET m == AfterMonsterEffects(sessions[sid], action, spell_id, tape)
            out == ExecuteCore(sessions[sid], sessions[sid].player_id, action, spell_id,
                               tape)
        IN (/\ m # <<>>
            /\ m[1].raised = <<>>
            /\ m[1].player.current_hp = 0) =>
              /\ out.session.status = "DEFEAT"
              /\ out.answer.combat_ended /\ out.answer.result = "defeat"
              /\ out.session.monster_current_hp = m[1].monster.current_hp
              /\ out.session.monster_statuses = m[1].monster.statuses

\* the longest duration_turns of the statuses applied when durations are checked
MaxDuration == 3

RECURSIVE TurnEnds(_, _, _)
\* n ends of turn of entity who: process_turn_end n times
TurnEnds(b, who, n) ==
    IF n <= 0 THEN b ELSE TurnEnds(ProcessTurnEnd(b, who), who, n - 1)

\* BURN applied to entity who for d turns by an apply_status effect
Burning(b, who, d) ==
    EffectApplyStatus(b, who, who, [status_code |-> "BURN", duration_turns |-> d])

\* the HP that n ticks of BURN take from entity e, other statuses aside
BurnTaken(e, n) ==
    Min(e.current_hp, n * Mitigated(20, "MAGIC", e.stats))

\* BURN applied for d turns and left alone: present with d - k >= 1 turns left
\* after k < d ends of turn of its owner, gone after the d-th, and the owner's HP
\* is down by k ticks after k ends of turn and by d ticks from then on
BurnRunsItsCourse(b0, who, d) ==
    LET b == Burning([b0 EXCEPT ![who].statuses = EmptyMap], who, d)
    IN \A k \in 0..(d + 1) :
        LET after == TurnEnds(b, who, k)
        IN /\ k < d => /\ HasStatus(after[who], "BURN")
                       /\ after[who].statuses["BURN"].remaining = d - k
                       /\ after[who].statuses["BURN"].remaining >= 1
           /\ k >= d => ~HasStatus(after[who], "BURN")
           /\ after[who].current_hp = b[who].current_hp - BurnTaken(b[who], Min(k, d))

DamageAmounts == {0, 20, 50}

ShieldValues == {0, 30}

Resistances == {-5, 0, 6}

DamageTypes == {"PHYSICAL", "MAGIC", "TRUE", "MIXED"}

\* entity e holding shield sh, with armor and mr
Shielded(e, sh, armor, mr) ==
    [e EXCEPT !.gauges = Put(e.gauges, "shield", sh), !.stats.armor = armor,
              !.stats.mr = mr]

\* what take_damage(amount, damage_type) on e has to do: the shield absorbs
\* min(shield, amount), the rest is mitigated, current_hp goes down by
\* min(mitigated, current_hp) and the overkill is what is left of the
\* mitigated damage; no reduction for TRUE, for PHYSICAL with armor <= 0 and for
\* MAGIC with mr <= 0
TakesDamageAsStated(e, amount, damage_type) ==
    LET hit == TakeDamage(e, amount, damage_type)
        absorbed == Min(e.gauges["shield"], amount)
        rest == amount - absorbed
        mitigated == hit.result.mitigated_damage
    IN /\ hit.entity.gauges["shield"] = e.gauges["shield"] - absorbed
       /\ hit.result.raw_damage = rest
       /\ mitigated <= rest
       /\ damage_type = "TRUE" => mitigated = rest
       /\ damage_type = "PHYSICAL" /\ e.stats.armor <= 0 => mitigated = rest
       /\ damage_type = "MAGIC" /\ e.stats.mr <= 0 => mitigated = rest
       /\ damage_type = "PHYSICAL" /\ e.stats.armor > 0 =>
              mitigated = Trunc(rest * 100, 100 + e.stats.armor)
       /\ damage_type = "MAGIC" /\ e.stats.mr > 0 =>
              mitigated = Trunc(rest * 100, 100 + e.stats.mr)
       /\ hit.result.final_damage = Min(mitigated, e.current_hp)
       /\ hit.entity.current_hp = e.current_hp - hit.result.final_damage
       /\ hit.result.overkill = mitigated - hit.result.final_damage

\* C23: take_damage(amount >= 0, type) absorbs min(shield, amount) from the
\* shield first and mitigates only the remainder, lowers current_hp by
\* final_damage = min(mitigated, current_hp) and reports overkill = mitigated -
\* final_damage; armor <= 0 leaves PHYSICAL, mr <= 0 leaves MAGIC and anything
\* leaves TRUE damage unreduced: for the entities of every session, every amount,
\* shield >= 0 and resistance
C23_TakeDamage ==
    \A sid \in DOMAIN sessions, who \in {"player", "monster"}, sh \in ShieldValues,
       amount \in DamageAmounts, damage_type \in DamageTypes,
       armor \in Resistances, mr \in Resistances :
        TakesDamageAsStated(
            Shielded(BuildBattle(sessions[sid], [i \in 1..TapeLen |-> 0])[who],
                     sh, armor, mr),
            amount, damage_type)

\* the monster (armor 0) put a shield of 30 up and took 50 PHYSICAL: the shield
\* absorbed 30 and its HP went down by 20
C23_Witness ==
    /\ response.op = "execute" /\ response.success /\ response.spell_id = "ward"
    /\ response.turn = 1
    /\ response.state[1].monster.current_hp = MonsterBp.base_max_hp - (50 - 30)

\* stacks, max_stacks and duration_turns of the apply_status effects checked
StackCounts == 1..3

StackLimits == 1..2

Durations == 1..2

\* an apply_status effect's params for BURN
BurnParams(stacks, limit, duration) ==
    [status_code |-> "BURN", duration_turns |-> duration, stacks |-> stacks,
     max_stacks |-> limit]

\* C24: after one apply_status with a max_stacks limit, and after a second one
\* that refreshes the status, the stacks of the status do not exceed the limit,
\* and the refresh leaves max(old remaining, new duration) turns
C24_MaxStacksRespected ==
    \A sid \in DOMAIN sessions, who \in {"player", "monster"}, limit \in StackLimits,
       s1 \in StackCounts, s2 \in StackCounts, d1 \in Durations, d2 \in Durations :
        LET b0 == BuildBattle(sessions[sid], [i \in 1..TapeLen |-> 0])
            b1 == EffectApplyStatus(b0, who, who, BurnParams(s1, limit, d1))
            b2 == EffectApplyStatus(b1, who, who, BurnParams(s2, limit, d2))
        IN /\ b1[who].statuses["BURN"].stacks <= limit
           /\ b2[who].statuses["BURN"].stacks <= limit
           /\ b2[who].statuses["BURN"].remaining = Max(d1, d2)

\* three effects whose outcome depends on the order they run in
OrderProbes ==
    << [opcode |-> "shield", params |-> [formula |-> Const(30)]],
       [opcode |-> "damage", params |-> [formula |-> Const(20), damage_type |-> "TRUE"]],
       [opcode |-> "remove_shield", params |-> EmptyMap] >>

\* the "order" values given to the effects of a list; -1 stands for no "order" key
OrderInputs == {-1, 0, 1}

\* effect e with "order" o, or without the key
WithOrder(e, o) ==
    IF o < 0 THEN e ELSE [opcode |-> e.opcode, params |-> e.params, order |-> o]

\* the effect list that holds the probes in the arrangement arr with the orders os
ProbeList(arr, os) == [i \in 1..3 |-> WithOrder(OrderProbes[arr[i]], os[i])]

\* position i comes before position j in ascending (order, list index), an
\* effect without "order" counting as order 0
RunsBefore(os, i, j) ==
    LET oi == IF os[i] < 0 THEN 0 ELSE os[i]
        oj == IF os[j] < 0 THEN 0 ELSE os[j]
    IN oi < oj \/ (oi = oj /\ i < j)

\* the list es in ascending (order, list index)
InOrder(es, os) ==
    [k \in 1..Len(es) |->
        es[CHOOSE i \in 1..Len(es) :
               Cardinality({j \in 1..Len(es) : RunsBefore(os, j, i)}) = k - 1]]

RECURSIVE OneAfterAnother(_, _, _, _)
\* the handlers of es called one after another, each on the battle the one
\* before it left
OneAfterAnother(b, src, tgt, es) ==
    IF es = <<>> THEN b
    ELSE OneAfterAnother(ApplyEffect(b, src, tgt, Head(es)), src, tgt, Tail(es))

\* C25: run_effects calls the handlers one after another in ascending (order,
\* list index): equal orders keep the list order, a missing order counts as 0,
\* and each handler works on the entities as the handlers before it left them
C25_EffectsRunInOrder ==
    \A sid \in DOMAIN sessions, os \in [1..3 -> OrderInputs],
       arr \in {<<1, 2, 3>>, <<3, 2, 1>>, <<2, 1, 3>>} :
        LET b == BuildBattle(sessions[sid], [i \in 1..TapeLen |-> 0])
            es == ProbeList(arr, os)
        IN /\ SortEffects(es) = InOrder(es, os)
           /\ RunEffects(b, "player", "monster", es)
                = OneAfterAnother(b, "player", "monster", InOrder(es, os))

\* ward lists its damage (order 1) before its shield (order 0); the shield was
\* up when the 50 damage arrived, and the monster lost 20 HP only
C25_Witness ==
    /\ OrderOf(FindSpell("ward")[1].effects[1]) > OrderOf(FindSpell("ward")[1].effects[2])
    /\ FindSpell("ward")[1].effects[1].opcode = "damage"
    /\ response.op = "execute" /\ response.success /\ response.spell_id = "ward"
    /\ ~response.combat_ended
    /\ response.turn = 2
    /\ response.state[1].monster.current_hp > 0

\* an ability of a boss: its priority and its condition_expr
BossAbility(id, priority, condition_expr) ==
    [id |-> id, name |-> id, cooldown |-> 0, priority |-> priority,
     condition_expr |-> condition_expr, effects |-> <<>>]

\* ability lists of a boss: basic (priority 1) and heavy (priority 3), in both
\* orders, with an ability of priority 5 whose condition does not hold, and with
\* a second ability of priority 3
BossKits ==
    { << BossAbility("basic", 1, <<>>), BossAbility("heavy", 3, <<>>) >>,
      << BossAbility("heavy", 3, <<>>), BossAbility("basic", 1, <<>>),
         BossAbility("locked", 5, <<Const(0)>>) >>,
      << BossAbility("basic", 1, <<>>), BossAbility("heavy", 3, <<Lin(10, "T_HP", 0)>>),
         BossAbility("crush", 3, <<>>) >> }

\* cooldowns of the boss when it selects
BossCooldowns == {EmptyMap, [x \in {"heavy"} |-> 2]}

\* the battle of session s with the monster holding the abilities kit and the
\* cooldowns cds
BossBattle(s, tape, kit, cds) ==
    [BuildBattle(s, tape) EXCEPT !.monster.abilities = kit, !.monster.cooldowns = cds,
                                 !.monster.ai_behavior = "boss"]

\* C26: a monster with ai_behavior 'boss' at hp_percent <= 0.4 selects the
\* highest-priority ability among those not on cooldown whose condition holds,
\* the same one for every state of the battle RNG, and draws nothing from it
C26_BossPicksStrongest ==
    \A sid \in DOMAIN sessions, kit \in BossKits, cds \in BossCooldowns, tape \in Tapes :
        LET b == BossBattle(sessions[sid], tape, kit, cds)
            sel == SelectMonsterAction(b)
            any == SelectMonsterAction(
                       BossBattle(sessions[sid], [i \in 1..TapeLen |-> 0], kit, cds))
        IN (/\ IsActive(sessions[sid])
            /\ HpPercentLe(b.monster, 40)
            /\ \E i \in DOMAIN kit :
                   ~IsOnCooldown(b.monster, kit[i].id) /\ CheckAbilityCondition(b, kit[i]))
           => /\ sel.ability # <<>>
              /\ \E i \in DOMAIN kit : kit[i] = sel.ability[1]
              /\ ~IsOnCooldown(b.monster, sel.ability[1].id)
              /\ CheckAbilityCondition(b, sel.ability[1])
              /\ \A i \in DOMAIN kit :
                     (~IsOnCooldown(b.monster, kit[i].id) /\ CheckAbilityCondition(b, kit[i]))
                         => kit[i].priority <= sel.ability[1].priority
              /\ sel.ability = any.ability
              /\ sel.b.ti = b.ti

\* the wisp, a boss, was at 10 of 30 HP when its turn came and used shatter:
\* the player, healed to 87 HP, is left with 59
C26_Witness ==
    /\ MonsterBp.ai_behavior = "boss"
    /\ response.op = "execute" /\ response.success /\ response.action = "consumable"
    /\ response.turn = 2 /\ ~response.combat_ended
    /\ sessions[response.sid].monster_current_hp = 10
    /\ sessions[response.sid].player_current_hp = 59

\* the evaluation of the ability's condition_expr fails: it names a variable
\* that is not in the scope
ConditionFails(ability) ==
    ability.condition_expr # <<>> /\ ability.condition_expr[1].var \notin ScopeNames

\* C27: an ability whose condition_expr fails to evaluate is kept as a
\* candidate: whenever it is not on cooldown it is among the abilities
\* select_monster_action selects from
C27_FailedConditionKeepsAbility ==
    \A sid \in DOMAIN sessions :
        LET b == BuildBattle(sessions[sid], [i \in 1..TapeLen |-> 0])
        IN \A i \in DOMAIN b.monster.abilities :
               (/\ ConditionFails(b.monster.abilities[i])
                /\ ~IsOnCooldown(b.monster, b.monster.abilities[i].id))
               => /\ CheckAbilityCondition(b, b.monster.abilities[i])
                  /\ \E k \in DOMAIN ValidAbilities(b) :
                         ValidAbilities(b)[k] = b.monster.abilities[i]

\* C28: after an executeAction that returns success the session is in
\* PLAYER_TURN, VICTORY or DEFEAT, never in MONSTER_TURN or PENDING, and the
\* answer states the same status; in PLAYER_TURN the turn is the player's and
\* turn_count is 1 higher than before the call
C28_MonsterTurnResolvedInAction ==
    (response.op = "execute" /\ response.error = "" /\ response.success) =>
        LET s == sessions[response.sid]
        IN /\ s.status \in {"PLAYER_TURN", "VICTORY", "DEFEAT"}
           /\ response.state[1].status = s.status
           /\ response.combat_ended <=> s.status # "PLAYER_TURN"
           /\ s.status = "PLAYER_TURN" =>
                  /\ s.current_turn_entity = "player"
                  /\ response.state[1].current_turn = "player"
                  /\ s.turn_count = response.turn + 1
                  /\ response.state[1].turn_count = response.turn + 1

\* a second executeAction that the combat outlived: the monster has acted and
\* the player is to move in turn 3
C28_Witness ==
    /\ response.op = "execute" /\ response.error = "" /\ response.success
    /\ response.turn = 2
    /\ sessions[response.sid].status = "PLAYER_TURN"
    /\ sessions[response.sid].current_turn_entity = "player"
    /\ sessions[response.sid].turn_count = 3
    /\ sessions[response.sid].player_current_hp < 54

\* the use case answered with a result, not with (None, error)
Accepted(out) == out.answer.error = ""

\* C29: no active session is stuck: while no request is in flight, every
\* session in an active status accepts an executeAction or a flee of its owner
C29_NoActiveSessionStuck ==
    \A sid \in DOMAIN sessions :
        (IsActive(sessions[sid]) /\ \A slot \in DOMAIN requests : requests[slot] = Idle) =>
            \/ \E action \in ActionTypes, spell_id \in SpellInputs, tape \in Tapes :
                   Accepted(ExecuteCore(sessions[sid], sessions[sid].player_id, action,
                                        spell_id, tape))
            \/ \E draw \in FleeDraws :
                   Accepted(FleeCore(sessions[sid], sessions[sid].player_id,
                                     players[sessions[sid].player_id].level, draw))

\* a monster ability whose only effect is a lifesteal of 50%
Drain ==
    [id |-> "drain", name |-> "drain", cooldown |-> 0, priority |-> 1,
     condition_expr |-> <<>>,
     effects |-> << Effect("lifesteal", 0, [percent |-> 50]) >>]

\* the battle when the monster's turn begins, after the player's accepted
\* action (action, spell_id, tape) on session s; <<>> when the turn does not come
AtMonsterTurn(s, action, spell_id, tape) ==
    LET r == PlayerAction(BuildBattle(s, tape), action, spell_id)
        c == CheckVictoryConditions(PlayerEndTurn(r.b))
    IN IF /\ s.status = "PLAYER_TURN" /\ r.success
          /\ CheckVictoryConditions(r.b).result = "none"
          /\ c.result = "none" /\ c.b.session.status = "MONSTER_TURN"
          /\ c.b.raised = <<>>
       THEN <<c.b>>
       ELSE <<>>

\* C30: a lifesteal heals its source only from damage the same source dealt
\* earlier in the same effect list: a monster ability that is a lifesteal alone
\* leaves the monster's HP as it is, whatever damage the player's action dealt
\* in the same executeAction
C30_LifestealOwnDamageOnly ==
    \A sid \in DOMAIN sessions, action \in {"basic_attack", "spell", "consumable"},
       spell_id \in SpellIds, tape \in Tapes :
        LET m == AtMonsterTurn(sessions[sid], action, spell_id, tape)
        IN m # <<>> =>
               MonsterRunEffects(m[1], <<Drain>>).monster.current_hp
                   = m[1].monster.current_hp

====
